---------------------------- MODULE Spec2Model ----------------------------
(***************************************************************************)
(* A model of the FTP server of this repository.  Two builds of the        *)
(* server are in the source tree: src/code/server.c (the one the Makefile  *)
(* compiles, with MKD/RMD/DELE/RNFR/RNTO and no path check in CWD) and     *)
(* src/unnamed/part_000 (binds the data socket to port 20, checks CWD with *)
(* realpath, leaves the control socket open in QUIT).  The variable build  *)
(* says which one runs; everything else is shared.                         *)
(*                                                                         *)
(* Strings.  A command line is the sequence of its whitespace-separated    *)
(* tokens.  A path string is the sequence of its '/'-separated components  *)
(* (the string "/" is <<>>); it is kept as text, "." and ".." included,    *)
(* where the code keeps text, and is resolved against the file system by   *)
(* Walk, as the kernel does.  Symbolic links are not modelled.             *)
(***************************************************************************)
EXTENDS Integers, Sequences, FiniteSets, TLC

(***************************************************************************)
(* Bounds of the model.                                                    *)
(***************************************************************************)
\* Slots of client_sessions.  The source has 10 (#define MAX_CLIENTS); the
\* model runs the same code over fewer slots.
MAX_CLIENTS == 2
\* Control connections that may be open at the same time in Spec.
MaxConn == 1
\* Longest current_dir text, in components, that CWD is let to build.
MaxDirLen == 4

VARIABLES
    build,            \* "server_c" (src/code/server.c) or "part_000"
    users,            \* User users[]; num_users is Len(users)
    client_sessions,  \* FTPSession client_sessions[MAX_CLIENTS]
    rnfr_filename,    \* char rnfr_filename[MAX_CLIENTS][BUFFER_SIZE] (server.c)
    master_fds,       \* fd_set master_fds of main, without server_fd
    open_fds,         \* descriptors of accepted control sockets still open
    running,          \* the server process has not exited
    pc,               \* "select": in the event loop; "waitpid": in a handler, waiting for its child
    xfer,             \* the forked transfer child, or NoXfer
    fs,               \* the file system: canonical path -> node
    peer,             \* per descriptor: the client's end as the server's socket has it:
                      \* "open"; "closed" (FIN received); "reset" (RST received, the
                      \* error not yet reported); "broken" (the error was reported)
    inbuf,            \* per descriptor: lines sent and not yet read by the server
    lastCmd,          \* observation: what the last step was (line: the text
                      \* handle_command was given, arg: the arg its handler got)
    replies,          \* observation: reply codes the last step wrote on the control socket
    touched,          \* observation: canonical paths the last step's file operations acted on
    hist,             \* observation, per slot: whose password was verified; USER 331 awaiting PASS
    client            \* the process of src/code/client.c on the first connection, with
                      \* what has arrived at its sockets; NoClient when the peer is
                      \* another program

vars == << build, users, client_sessions, rnfr_filename, master_fds, open_fds,
           running, pc, xfer, fs, peer, inbuf, lastCmd, replies, touched, hist,
           client >>

Slots == 0 .. (MAX_CLIENTS - 1)
\* Descriptor numbers accept() hands out (lowest free first).  One more than
\* there are slots, so that a connection can find every slot taken.
Fds == 1 .. (MAX_CLIENTS + 1)

(***************************************************************************)
(* C strings and paths.                                                    *)
(***************************************************************************)
\* The empty C string (a buffer after memset 0), as a path text.
EmptyStr == << "" >>
\* A failed resolution (ENOENT, ENOTDIR).
NoEnt == << "?" >>
\* getcwd() of the server process: the server root.
ServerCwd == << "srv" >>

\* A token read as a path: absolute or not, and its components.
PathArg(a) ==
    CASE a = "/"            -> [abs |-> TRUE,  segs |-> << >>]
      [] a = "/srv/bob"     -> [abs |-> TRUE,  segs |-> << "srv", "bob" >>]
      [] a = ".."           -> [abs |-> FALSE, segs |-> << ".." >>]
      [] a = "../.."        -> [abs |-> FALSE, segs |-> << "..", ".." >>]
      [] a = "../bob/b.txt" -> [abs |-> FALSE, segs |-> << "..", "bob", "b.txt" >>]
      [] a = "../bob/c.txt" -> [abs |-> FALSE, segs |-> << "..", "bob", "c.txt" >>]
      [] a = "../bob/d"     -> [abs |-> FALSE, segs |-> << "..", "bob", "d" >>]
      [] a = "sub/.."       -> [abs |-> FALSE, segs |-> << "sub", ".." >>]
      [] OTHER              -> [abs |-> FALSE, segs |-> << a >>]

\* sprintf(buf, "%s/%s", dir, name)
JoinPath(dir, name) == dir \o PathArg(name).segs

\* sprintf(buf, "%s/tmp_%ld_%s", dir, (long)time(NULL), name): the prefix
\* glues to the first component of name.  The seconds are left out.
TmpPath(dir, name) ==
    LET segs == PathArg(name).segs IN
    IF segs = << >> THEN dir \o << "tmp_" >>
    ELSE dir \o << "tmp_" \o Head(segs) >> \o Tail(segs)

Exists(f, p) == p \in DOMAIN f
IsDir(f, p) == p \in DOMAIN f /\ f[p].type = "dir"
IsFile(f, p) == p \in DOMAIN f /\ f[p].type = "file"
Parent(p) == IF p = << >> THEN << >> ELSE SubSeq(p, 1, Len(p) - 1)

\* Path resolution by the kernel, from the directory cur: the canonical path
\* named by segs.  Every component but the last must be an existing
\* directory; the result itself may not exist.
RECURSIVE Walk(_, _, _)
Walk(f, cur, segs) ==
    IF segs = << >> THEN cur
    ELSE IF ~IsDir(f, cur) THEN NoEnt
    ELSE IF Head(segs) = "." THEN Walk(f, cur, Tail(segs))
    ELSE IF Head(segs) = ".." THEN Walk(f, Parent(cur), Tail(segs))
    ELSE Walk(f, cur \o << Head(segs) >>, Tail(segs))

\* The canonical path of an absolute path text.
Canon(f, text) == IF text = EmptyStr THEN NoEnt ELSE Walk(f, << >>, text)

\* opendir(text) succeeds
CanOpenDir(f, text) == IsDir(f, Canon(f, text))
\* fopen(text, "r"/"rb") succeeds: the path exists (a directory opens for
\* reading too)
CanOpenRead(f, text) == Exists(f, Canon(f, text))
\* stat(text) succeeds
CanStat(f, text) == Exists(f, Canon(f, text))
\* realpath(text): the canonical path when every component exists
RealPath(f, text) == IF Exists(f, Canon(f, text)) THEN Canon(f, text) ELSE NoEnt

\* strncmp(resolved, root, len) == 0 with resolved[len] '/' or NUL; also the
\* jail relation of the claims: p is root or below it.
Under(p, root) ==
    /\ p # NoEnt
    /\ Len(p) >= Len(root)
    /\ SubSeq(p, 1, Len(root)) = root

\* strstr(path, name) != NULL.  Compared by component: no component of the
\* model's paths holds a user name as a proper substring.
StrStr(text, name) == name = "" \/ \E k \in 1 .. Len(text) : text[k] = name

Dir == [type |-> "dir"]
File(d) == [type |-> "file", data |-> d]

(***************************************************************************)
(* File operations.                                                        *)
(***************************************************************************)
\* The canonical paths a call on the path text acts on (none when the path
\* does not resolve).
Acts(f, text) == IF Canon(f, text) = NoEnt THEN {} ELSE {Canon(f, text)}

\* mkdir(text, 0777) succeeds
CanMkdir(f, text) ==
    LET c == Canon(f, text) IN
    c # NoEnt /\ ~Exists(f, c) /\ IsDir(f, Parent(c))
Mkdir(f, text) == IF CanMkdir(f, text) THEN (Canon(f, text) :> Dir) @@ f ELSE f

\* the entries of the directory c
Children(f, c) == {p \in DOMAIN f : Len(p) = Len(c) + 1 /\ Parent(p) = c}

\* rmdir(text) succeeds: an empty directory, not the root
CanRmdir(f, text) ==
    LET c == Canon(f, text) IN
    IsDir(f, c) /\ c # << >> /\ Children(f, c) = {}
Remove(f, c) == [p \in DOMAIN f \ {c} |-> f[p]]
Rmdir(f, text) == IF CanRmdir(f, text) THEN Remove(f, Canon(f, text)) ELSE f

\* unlink(text) succeeds: an existing file
CanUnlink(f, text) == IsFile(f, Canon(f, text))
Unlink(f, text) == IF CanUnlink(f, text) THEN Remove(f, Canon(f, text)) ELSE f

\* fopen(text, "wb") succeeds: the directory exists and the name is not a
\* directory; the file is created or truncated
CanOpenWrite(f, text) ==
    LET c == Canon(f, text) IN
    c # NoEnt /\ c # << >> /\ IsDir(f, Parent(c)) /\ ~IsDir(f, c)
WriteFile(f, text, d) ==
    IF CanOpenWrite(f, text)
    THEN [p \in DOMAIN f \cup {Canon(f, text)} |->
             IF p = Canon(f, text) THEN File(d) ELSE f[p]]
    ELSE f

\* rename(old, new) succeeds
CanRename(f, old, new) ==
    LET o == Canon(f, old)
        n == Canon(f, new)
    IN  /\ Exists(f, o) /\ o # << >>
        /\ n # NoEnt /\ n # << >> /\ IsDir(f, Parent(n))
        /\ IF IsDir(f, o)
           THEN /\ ~Under(n, o) \/ n = o
                /\ ~Exists(f, n) \/ (IsDir(f, n) /\ Children(f, n) = {}) \/ n = o
           ELSE ~IsDir(f, n)
\* the file system after rename(old, new): the node and what is below it move
Rename(f, old, new) ==
    LET o == Canon(f, old)
        n == Canon(f, new)
        moved == {p \in DOMAIN f : Under(p, o)}
        to(p) == n \o SubSeq(p, Len(o) + 1, Len(p))
        rest == (DOMAIN f \ moved) \ {n}
    IN  IF ~CanRename(f, old, new) \/ o = n THEN f
        ELSE [q \in rest \cup {to(p) : p \in moved} |->
                 IF q \in rest THEN f[q]
                 ELSE f[CHOOSE p \in moved : to(p) = q]]

(***************************************************************************)
(* The credential table and the session table.                             *)
(***************************************************************************)
\* load_users() on a users.csv of two records
TwoUsers == << [username |-> "alice", password |-> "wonderland"],
              [username |-> "bob", password |-> "donuts"] >>

\* load_users() on a users.csv in which a later record repeats a user name
DupUsers == << [username |-> "alice", password |-> "wonderland"],
              [username |-> "bob", password |-> "donuts"],
              [username |-> "alice", password |-> "rabbit"] >>

\* initialize_sessions(): one slot
EmptySession ==
    [control_fd |-> -1, data_fd |-> -1, data_port |-> -1,
     authenticated |-> FALSE, username |-> "",
     current_dir |-> EmptyStr, root_dir |-> EmptyStr, data_ip |-> << >>]

\* A faulty variant of get_session_index: it returns the first slot in use.
get_session_index_any(client_fd) ==
    IF \E i \in Slots : client_sessions[i].control_fd # -1
    THEN CHOOSE i \in Slots :
            /\ client_sessions[i].control_fd # -1
            /\ \A j \in Slots : client_sessions[j].control_fd # -1 => i <= j
    ELSE -1

\* get_session_index(client_fd): the first slot holding the descriptor, or -1
get_session_index(client_fd) ==
    IF \E i \in Slots : client_sessions[i].control_fd = client_fd
    THEN CHOOSE i \in Slots :
            /\ client_sessions[i].control_fd = client_fd
            /\ \A j \in Slots : client_sessions[j].control_fd = client_fd => i <= j
    ELSE -1

\* A faulty variant of clean_up_session: it leaves username as it was.
clean_up_session_keep_username(session_index) ==
    [client_sessions EXCEPT ![session_index] =
        [@ EXCEPT !.control_fd = -1, !.data_fd = -1, !.data_port = -1,
                  !.authenticated = FALSE, !.data_ip = << >>]]

\* clean_up_session(session_index): the table afterwards.  data_fd is never
\* set by any handler, so there is nothing to close.
clean_up_session(session_index) ==
    [client_sessions EXCEPT ![session_index] =
        [@ EXCEPT !.control_fd = -1, !.data_fd = -1, !.data_port = -1,
                  !.authenticated = FALSE, !.username = "", !.data_ip = << >>]]

\* the loop of handle_user_command: some record has this username
user_exists(username) ==
    \E k \in 1 .. Len(users) : users[k].username = username

\* A faulty variant of authenticate_user: it compares the password with the
\* user name column.
authenticate_user_by_name(username, password) ==
    \E k \in 1 .. Len(users) :
        users[k].username = username /\ users[k].username = password

\* authenticate_user(username, password)
authenticate_user(username, password) ==
    \E k \in 1 .. Len(users) :
        users[k].username = username /\ users[k].password = password

(***************************************************************************)
(* The command handlers.  A handler is the action of one call: it sets     *)
(* the variables a handler can write (the session table, rnfr_filename,    *)
(* the open descriptors, the file system, the child, pc) and the           *)
(* observations replies and touched.                                       *)
(***************************************************************************)
NoXfer == [kind |-> "none", fd |-> -1, slot |-> -1, path |-> EmptyStr,
           temp |-> EmptyStr, state |-> "none", status |-> 0, data |-> << >>,
           ioerr |-> FALSE, reaped |-> FALSE]

\* what a handler leaves alone when it only answers
OnlyReply(codes) ==
    /\ replies' = codes
    /\ touched' = {}
    /\ UNCHANGED << client_sessions, rnfr_filename, open_fds, pc, xfer, fs >>

\* the decimal digits, as "%d" writes and reads them
Digits == "0123456789"

\* the character of the C string s at position i (from 1); "" is its NUL
CharAt(s, i) == IF i <= Len(s) THEN SubSeq(s, i, i) ELSE ""

IsDigit(ch) == ch \in {"0", "1", "2", "3", "4", "5", "6", "7", "8", "9"}

\* the value of a digit: its place in Digits
DigitValue(ch) ==
    CASE ch = "0" -> 0 [] ch = "1" -> 1 [] ch = "2" -> 2 [] ch = "3" -> 3
      [] ch = "4" -> 4 [] ch = "5" -> 5 [] ch = "6" -> 6 [] ch = "7" -> 7
      [] ch = "8" -> 8 [] ch = "9" -> 9

\* the run of digits of s at position i, accumulated in base ten
RECURSIVE scan_digits(_, _, _)
scan_digits(s, i, acc) ==
    IF IsDigit(CharAt(s, i))
    THEN scan_digits(s, i + 1, acc * 10 + DigitValue(CharAt(s, i)))
    ELSE [val |-> acc, next |-> i]

RECURSIVE skip_space(_, _)
skip_space(s, i) == IF CharAt(s, i) = " " THEN skip_space(s, i + 1) ELSE i

\* one "%d" of sscanf at position i: white space is skipped, a sign is
\* optional, one digit at least is needed
scan_int(s, i) ==
    LET j == skip_space(s, i)
        k == IF CharAt(s, j) \in {"-", "+"} THEN j + 1 ELSE j
        d == scan_digits(s, k, 0)
    IN  [ok |-> IsDigit(CharAt(s, k)),
         val |-> IF CharAt(s, j) = "-" THEN 0 - d.val ELSE d.val,
         next |-> d.next]

\* "%d,%d,%d,%d,%d,%d" from position i on: the integers converted before
\* the first mismatch, out being those converted so far
RECURSIVE scan_list(_, _, _)
scan_list(s, i, out) ==
    LET r == scan_int(s, i) IN
    IF ~r.ok THEN out
    ELSE IF Len(out) = 5 \/ CharAt(s, r.next) # "," THEN Append(out, r.val)
    ELSE scan_list(s, r.next + 1, Append(out, r.val))

\* sscanf(port_args, "%d,%d,%d,%d,%d,%d", ...): the integers converted
PortArg(a) == scan_list(a, 1, << >>)

handle_user_command(client_fd, username) ==
    LET session_index == get_session_index(client_fd) IN
    IF session_index # -1
    THEN IF user_exists(username)
         THEN /\ client_sessions' =
                    [client_sessions EXCEPT ![session_index].username = username]
              /\ replies' = << 331 >>
              /\ touched' = {}
              /\ UNCHANGED << rnfr_filename, open_fds, pc, xfer, fs >>
         ELSE OnlyReply(<< 530 >>)
    ELSE OnlyReply(<< 500 >>)

handle_pass_command(client_fd, password) ==
    LET session_index == get_session_index(client_fd) IN
    IF session_index # -1 /\ client_sessions[session_index].username # ""
    THEN IF authenticate_user(client_sessions[session_index].username, password)
         THEN LET user_dir == client_sessions[session_index].root_dir
                                 \o << client_sessions[session_index].username >>
              IN  /\ client_sessions' =
                        [client_sessions EXCEPT
                            ![session_index].authenticated = TRUE,
                            ![session_index].current_dir = user_dir]
                  /\ fs' = Mkdir(fs, user_dir)
                  /\ touched' = Acts(fs, user_dir)
                  /\ replies' = << 230 >>
                  /\ UNCHANGED << rnfr_filename, open_fds, pc, xfer >>
         ELSE OnlyReply(<< 530 >>)
    ELSE OnlyReply(<< 503 >>)

handle_quit_command(client_fd) ==
    LET session_index == get_session_index(client_fd) IN
    /\ replies' = << 221 >>
    /\ client_sessions' = IF session_index # -1
                          THEN clean_up_session(session_index)
                          ELSE client_sessions
    \* server.c closes the descriptor here; part_000 leaves it to the loop
    /\ open_fds' = IF build = "server_c" THEN open_fds \ {client_fd} ELSE open_fds
    /\ touched' = {}
    /\ UNCHANGED << rnfr_filename, pc, xfer, fs >>

handle_port_command(client_fd, port_args) ==
    LET session_index == get_session_index(client_fd)
        n == PortArg(port_args)
    IN  IF session_index = -1 THEN OnlyReply(<< 500 >>)
        ELSE IF Len(n) # 6 THEN OnlyReply(<< 501 >>)
        ELSE /\ client_sessions' =
                   [client_sessions EXCEPT
                       ![session_index].data_ip = SubSeq(n, 1, 4),
                       ![session_index].data_port = n[5] * 256 + n[6]]
             /\ replies' = << 200 >>
             /\ touched' = {}
             /\ UNCHANGED << rnfr_filename, open_fds, pc, xfer, fs >>

\* handle_cwd_command of src/code/server.c
cwd_server_c(session_index, dir) ==
    LET new_dir == IF PathArg(dir).abs THEN PathArg(dir).segs
                   ELSE JoinPath(client_sessions[session_index].current_dir, dir)
    IN  /\ Len(new_dir) <= MaxDirLen
        /\ touched' = Acts(fs, new_dir)
        /\ IF CanOpenDir(fs, new_dir)
           THEN /\ client_sessions' =
                      [client_sessions EXCEPT ![session_index].current_dir = new_dir]
                /\ replies' = << 200 >>
           ELSE /\ replies' = << 550 >>
                /\ UNCHANGED client_sessions
        /\ UNCHANGED << rnfr_filename, open_fds, pc, xfer, fs >>

\* handle_cwd_command of src/unnamed/part_000
cwd_part_000(session_index, dir) ==
    LET s == client_sessions[session_index]
        target_path == IF PathArg(dir).abs THEN PathArg(dir).segs
                       ELSE JoinPath(s.current_dir, dir)
        resolved_path == RealPath(fs, target_path)
        \* realpath(username): relative to the process's directory
        allowed_root == RealPath(fs, ServerCwd \o << s.username >>)
    IN  /\ touched' = Acts(fs, target_path)
        /\ IF resolved_path = NoEnt THEN replies' = << 550 >> /\ UNCHANGED client_sessions
           ELSE IF ~StrStr(s.current_dir, s.username)
                THEN replies' = << 500 >> /\ UNCHANGED client_sessions
           ELSE IF allowed_root = NoEnt
                THEN replies' = << 550 >> /\ UNCHANGED client_sessions
           ELSE IF ~Under(resolved_path, allowed_root)
                THEN replies' = << 550 >> /\ UNCHANGED client_sessions
           ELSE /\ client_sessions' =
                      [client_sessions EXCEPT ![session_index].current_dir = resolved_path]
                /\ replies' = << 200 >>
        /\ UNCHANGED << rnfr_filename, open_fds, pc, xfer, fs >>

handle_cwd_command(client_fd, dir) ==
    LET session_index == get_session_index(client_fd) IN
    IF session_index = -1 THEN OnlyReply(<< 500 >>)
    ELSE IF build = "server_c" THEN cwd_server_c(session_index, dir)
    ELSE cwd_part_000(session_index, dir)

handle_pwd_command(client_fd) ==
    LET session_index == get_session_index(client_fd) IN
    IF session_index = -1 THEN OnlyReply(<< 500 >>) ELSE OnlyReply(<< 257 >>)

(***************************************************************************)
(* LIST, RETR, STOR.  io names the system call of the handler that fails   *)
(* ("socket", "setsockopt", "bind", "connect", "fork"), or is "ok".  The   *)
(* handler runs up to fork(); the child then runs (ChildRun) while the     *)
(* parent sits in waitpid(pid, NULL, 0), and the parent goes on in         *)
(* WaitpidReturn once the child has exited.                                *)
(***************************************************************************)
\* the outcomes the build can meet: only part_000 binds the data socket
IoOutcomes == IF build = "part_000"
              THEN {"ok", "socket", "setsockopt", "bind", "connect", "fork"}
              ELSE {"ok", "socket", "setsockopt", "connect", "fork"}

\* what the peer sends on the data connection of a STOR
Payloads == { << "x", "y" >> }

\* the parent branch after fork(): the endpoint PORT stored is reset
reset_data_endpoint(session_index) ==
    [client_sessions EXCEPT ![session_index].data_port = -1,
                            ![session_index].data_ip = << >>]

\* the handler from "send 150" on: connect(), fork(), the parent branch
start_transfer(client_fd, session_index, kind, path, temp, io, acted) ==
    /\ touched' = acted
    /\ IF io = "connect"
       THEN /\ replies' = << 150, 425 >>
            /\ UNCHANGED << client_sessions, pc, xfer >>
       ELSE IF io = "fork"
       THEN /\ replies' = << 150, 451 >>
            /\ UNCHANGED << client_sessions, pc, xfer >>
       ELSE /\ replies' = << 150 >>
            /\ xfer' = [kind |-> kind, fd |-> client_fd, slot |-> session_index,
                        path |-> path, temp |-> temp,
                        state |-> "running", status |-> 0, data |-> << >>,
                        ioerr |-> FALSE, reaped |-> FALSE]
            /\ client_sessions' = reset_data_endpoint(session_index)
            /\ pc' = "waitpid"
    /\ UNCHANGED << rnfr_filename, open_fds, fs >>

\* A faulty variant of handle_list_command: it does not test data_port.
handle_list_command_no_port_test(client_fd, io) ==
    LET session_index == get_session_index(client_fd) IN
    IF session_index = -1 THEN OnlyReply(<< 425 >>)
    ELSE IF io \in {"socket", "setsockopt", "bind"} THEN OnlyReply(<< 425 >>)
    ELSE start_transfer(client_fd, session_index, "LIST",
                        client_sessions[session_index].current_dir, EmptyStr, io, {})

handle_list_command(client_fd, io) ==
    LET session_index == get_session_index(client_fd) IN
    IF session_index = -1 \/ client_sessions[session_index].data_port = -1
    THEN OnlyReply(<< 425 >>)
    ELSE IF io \in {"socket", "setsockopt", "bind"} THEN OnlyReply(<< 425 >>)
    ELSE start_transfer(client_fd, session_index, "LIST",
                        client_sessions[session_index].current_dir, EmptyStr, io, {})

handle_retr_command(client_fd, filename, io) ==
    LET session_index == get_session_index(client_fd) IN
    IF session_index = -1 \/ client_sessions[session_index].data_port = -1
    THEN OnlyReply(<< 425 >>)
    ELSE IF io \in {"socket", "setsockopt", "bind"} THEN OnlyReply(<< 425 >>)
    ELSE LET filepath == JoinPath(client_sessions[session_index].current_dir, filename)
         IN  IF ~CanOpenRead(fs, filepath)
             THEN /\ replies' = << 550 >>
                  /\ touched' = Acts(fs, filepath)
                  /\ UNCHANGED << client_sessions, rnfr_filename, open_fds, pc, xfer, fs >>
             ELSE start_transfer(client_fd, session_index, "RETR", filepath, EmptyStr,
                                 io, Acts(fs, filepath))

handle_stor_command(client_fd, filename, io) ==
    LET session_index == get_session_index(client_fd) IN
    IF session_index = -1 \/ client_sessions[session_index].data_port = -1
    THEN OnlyReply(<< 425 >>)
    ELSE IF io \in {"socket", "setsockopt", "bind"} THEN OnlyReply(<< 425 >>)
    ELSE LET temp_filepath == TmpPath(client_sessions[session_index].current_dir, filename)
             final_filepath == JoinPath(client_sessions[session_index].current_dir, filename)
         IN  start_transfer(client_fd, session_index, "STOR", final_filepath,
                            temp_filepath, io, {})

\* names readdir() yields that the LIST child skips
Skipped(name) == IF build = "part_000" THEN name \in {".", "..", ".hidden"}
                 ELSE name \in {".", ".."}

\* the child of LIST: the names written on the data connection, as a set
list_child(f, dir) ==
    IF CanOpenDir(f, dir)
    THEN {p[Len(p)] : p \in {q \in Children(f, Canon(f, dir)) : ~Skipped(q[Len(q)])}}
    ELSE {}

\* the child of RETR: exit status and the bytes written on the data connection
retr_child(f, filepath) ==
    IF ~CanOpenRead(f, filepath) THEN [status |-> 1, data |-> << >>]
    ELSE IF IsFile(f, Canon(f, filepath))
         THEN [status |-> 0, data |-> f[Canon(f, filepath)].data]
         ELSE [status |-> 0, data |-> << >>]

\* the child of STOR, having read the chunks got before read() returned 0
\* or -1: exit status and the file system it leaves
stor_child(f, temp_filepath, final_filepath, got) ==
    IF ~CanOpenWrite(f, temp_filepath) THEN [status |-> 1, fs |-> f]
    ELSE [status |-> 0,
          fs |-> Rename(WriteFile(f, temp_filepath, got), temp_filepath, final_filepath)]

(***************************************************************************)
(* MKD, RMD, DELE, RNFR, RNTO (src/code/server.c only).                    *)
(***************************************************************************)
\* a handler that answers after file operations on acted, leaving fs as f2
FileReply(codes, acted, f2) ==
    /\ replies' = codes
    /\ touched' = acted
    /\ fs' = f2
    /\ UNCHANGED << client_sessions, rnfr_filename, open_fds, pc, xfer >>

handle_mkd_command(client_fd, dirname) ==
    LET session_index == get_session_index(client_fd) IN
    IF session_index = -1 THEN OnlyReply(<< 500 >>)
    ELSE LET dir_path == JoinPath(client_sessions[session_index].current_dir, dirname)
         IN  IF CanOpenDir(fs, dir_path) THEN FileReply(<< 550 >>, Acts(fs, dir_path), fs)
             ELSE IF CanMkdir(fs, dir_path)
                  THEN FileReply(<< 257 >>, Acts(fs, dir_path), Mkdir(fs, dir_path))
                  ELSE FileReply(<< 550 >>, Acts(fs, dir_path), fs)

handle_rmd_command(client_fd, dirname) ==
    LET session_index == get_session_index(client_fd) IN
    IF session_index = -1 THEN OnlyReply(<< 500 >>)
    ELSE LET dir_path == JoinPath(client_sessions[session_index].current_dir, dirname)
         IN  IF ~CanOpenDir(fs, dir_path) THEN FileReply(<< 550 >>, Acts(fs, dir_path), fs)
             ELSE IF CanRmdir(fs, dir_path)
                  THEN FileReply(<< 250 >>, Acts(fs, dir_path), Rmdir(fs, dir_path))
                  ELSE FileReply(<< 550 >>, Acts(fs, dir_path), fs)

handle_dele_command(client_fd, filename) ==
    LET session_index == get_session_index(client_fd) IN
    IF session_index = -1 THEN OnlyReply(<< 500 >>)
    ELSE LET file_path == JoinPath(client_sessions[session_index].current_dir, filename)
         IN  IF ~CanOpenRead(fs, file_path) THEN FileReply(<< 550 >>, Acts(fs, file_path), fs)
             ELSE IF CanUnlink(fs, file_path)
                  THEN FileReply(<< 250 >>, Acts(fs, file_path), Unlink(fs, file_path))
                  ELSE FileReply(<< 550 >>, Acts(fs, file_path), fs)

handle_rnfr_command(client_fd, oldname) ==
    LET session_index == get_session_index(client_fd) IN
    IF session_index = -1 THEN OnlyReply(<< 500 >>)
    ELSE LET file_path == JoinPath(client_sessions[session_index].current_dir, oldname)
         IN  IF ~CanStat(fs, file_path) THEN FileReply(<< 550 >>, Acts(fs, file_path), fs)
             ELSE /\ rnfr_filename' = [rnfr_filename EXCEPT ![session_index] = file_path]
                  /\ replies' = << 350 >>
                  /\ touched' = Acts(fs, file_path)
                  /\ UNCHANGED << client_sessions, open_fds, pc, xfer, fs >>

\* A faulty variant of handle_rnto_command: it does not clear the stored
\* name.
handle_rnto_command_keeps_name(client_fd, newname) ==
    LET session_index == get_session_index(client_fd) IN
    IF session_index = -1 THEN OnlyReply(<< 500 >>)
    ELSE IF rnfr_filename[session_index] = EmptyStr THEN OnlyReply(<< 503 >>)
    ELSE LET new_file_path == JoinPath(client_sessions[session_index].current_dir, newname)
             old == rnfr_filename[session_index]
         IN  FileReply(IF CanRename(fs, old, new_file_path) THEN << 250 >> ELSE << 550 >>,
                       Acts(fs, old) \cup Acts(fs, new_file_path),
                       Rename(fs, old, new_file_path))

handle_rnto_command(client_fd, newname) ==
    LET session_index == get_session_index(client_fd) IN
    IF session_index = -1 THEN OnlyReply(<< 500 >>)
    ELSE IF rnfr_filename[session_index] = EmptyStr THEN OnlyReply(<< 503 >>)
    ELSE LET new_file_path == JoinPath(client_sessions[session_index].current_dir, newname)
             old == rnfr_filename[session_index]
         IN  /\ replies' = IF CanRename(fs, old, new_file_path) THEN << 250 >> ELSE << 550 >>
             /\ fs' = Rename(fs, old, new_file_path)
             /\ touched' = Acts(fs, old) \cup Acts(fs, new_file_path)
             /\ rnfr_filename' = [rnfr_filename EXCEPT ![session_index] = EmptyStr]
             /\ UNCHANGED << client_sessions, open_fds, pc, xfer >>

(***************************************************************************)
(* The dispatcher.                                                         *)
(***************************************************************************)
\* The client's end of a control connection is gone.
Gone == { "closed", "reset", "broken" }

\* write() on a control socket in state st: the states it can leave.  The
\* first write after a FIN succeeds and is answered by an RST, which has
\* arrived or not by the next write; the first call after an RST returns the
\* pending error (ECONNRESET); a write after that returns EPIPE and raises
\* SIGPIPE, which no build handles or ignores: the process is killed.
write_control(st) ==
    CASE st = "closed" -> { "closed", "reset" }
      [] st = "reset"  -> { "broken" }
      [] st = "broken" -> { "sigpipe" }
      [] OTHER         -> { st }

\* n calls of send_response(client_fd, ...) in a row, from state st
RECURSIVE send_responses(_, _)
send_responses(st, n) ==
    IF n = 0 THEN { st }
    ELSE UNION { write_control(t) : t \in send_responses(st, n - 1) }

\* send_response(client_fd, ...), called n times by a handler: the result of
\* write() is not looked at; the process goes on unless a signal killed it
send_response(client_fd, n) ==
    \E st \in send_responses(peer[client_fd], n) :
        /\ peer' = [peer EXCEPT ![client_fd] = IF st = "sigpipe" THEN "broken" ELSE st]
        /\ running' = (st # "sigpipe")

\* A faulty variant of not_logged_in: it takes a named user for a login.
not_logged_in_by_name(session_index) == client_sessions[session_index].username = ""

\* the test of handle_command before the commands that need a login
not_logged_in(session_index) == ~client_sessions[session_index].authenticated

\* handle_command(client_fd, command): command is the token sequence of the
\* line.  sscanf(command, "%s %s", cmd, arg) leaves arg as it was on the
\* stack when the line has one token: garbage stands for those bytes.
handle_command(client_fd, command, garbage, io) ==
    IF Len(command) < 1 THEN OnlyReply(<< 500 >>)
    ELSE LET cmd == command[1]
             arg == IF Len(command) >= 2 THEN command[2] ELSE garbage
             session_index == get_session_index(client_fd)
         IN  IF session_index = -1 THEN OnlyReply(<< 500 >>)
             ELSE IF cmd = "USER" THEN handle_user_command(client_fd, arg)
             ELSE IF cmd = "PASS" THEN handle_pass_command(client_fd, arg)
             ELSE IF cmd = "QUIT" THEN handle_quit_command(client_fd)
             ELSE IF not_logged_in(session_index) THEN OnlyReply(<< 530 >>)
             ELSE IF cmd = "PORT" THEN handle_port_command(client_fd, arg)
             ELSE IF cmd = "LIST" THEN handle_list_command(client_fd, io)
             ELSE IF cmd = "CWD" THEN handle_cwd_command(client_fd, arg)
             ELSE IF cmd = "PWD" THEN handle_pwd_command(client_fd)
             ELSE IF cmd = "RETR" THEN handle_retr_command(client_fd, arg, io)
             ELSE IF cmd = "STOR" THEN handle_stor_command(client_fd, arg, io)
             ELSE IF build = "server_c" /\ cmd = "MKD" THEN handle_mkd_command(client_fd, arg)
             ELSE IF build = "server_c" /\ cmd = "RMD" THEN handle_rmd_command(client_fd, arg)
             ELSE IF build = "server_c" /\ cmd = "DELE" THEN handle_dele_command(client_fd, arg)
             ELSE IF build = "server_c" /\ cmd = "RNFR" THEN handle_rnfr_command(client_fd, arg)
             ELSE IF build = "server_c" /\ cmd = "RNTO" THEN handle_rnto_command(client_fd, arg)
             ELSE OnlyReply(<< 202 >>)

\* The text handle_command is given after a read(): every CR and LF of the
\* buffer is overwritten with NUL, so the C string handed over ends at the
\* first line end.  chunk is what read() returned, as pieces; a piece with
\* eol ends its line, a piece without is followed directly by the next.
FirstLine(chunk) ==
    IF chunk[1].eol \/ Len(chunk) = 1 THEN chunk[1].tokens
    ELSE chunk[1].tokens \o chunk[2].tokens

Piece(tokens) == [tokens |-> tokens, eol |-> TRUE]

\* A faulty variant of Readable: the loop serves descriptors while a handler
\* is still waiting for its child.
ReadableWhileWaiting(fd) ==
    /\ running
    /\ fd \in master_fds \cap open_fds
    /\ \A g \in master_fds \ open_fds : g < fd

\* select() returned with fd readable.  A descriptor closed by QUIT in
\* server.c stays in master_fds: the next select() fails, but the descriptors
\* after it in this pass of the loop are still served.
Readable(fd) ==
    /\ running /\ pc = "select"
    /\ fd \in master_fds \cap open_fds
    /\ \A g \in master_fds \ open_fds : g < fd

\* What an observer of the control connection of slot s has seen: the user
\* whose password was last verified (a PASS answered 230), the user last
\* named by a USER answered 331 with no PASS answered 230 since, and how many
\* commands the session has had ("new": none, "one", "more"), and whether it
\* has had an RNFR answered 350 with no RNTO handled since.
NoHist == [verified |-> "", named |-> "", first |-> "new", rnfr |-> FALSE]

HistAfter(s, verb, arg, codes) ==
    IF s = -1 THEN hist
    ELSE LET f == IF hist[s].first = "new" THEN "one" ELSE "more" IN
         IF verb = "QUIT" THEN [hist EXCEPT ![s] = NoHist]
         ELSE IF verb = "USER" /\ codes = << 331 >>
              THEN [hist EXCEPT ![s].named = arg, ![s].first = f]
         ELSE IF verb = "PASS" /\ codes = << 230 >>
              THEN [hist EXCEPT ![s] = [verified |-> client_sessions[s].username,
                                        named |-> "", first |-> f,
                                        rnfr |-> hist[s].rnfr]]
         ELSE IF verb = "RNFR" /\ codes = << 350 >>
              THEN [hist EXCEPT ![s].rnfr = TRUE, ![s].first = f]
         ELSE IF verb = "RNTO" /\ codes # << 530 >>
              THEN [hist EXCEPT ![s].rnfr = FALSE, ![s].first = f]
         ELSE [hist EXCEPT ![s].first = f]

(***************************************************************************)
(* The sockets of the client program.  client.rx holds the reply codes     *)
(* that have arrived on its control socket and that it has not read;       *)
(* client.data is its data socket: "none", "listen" (bound and listening,  *)
(* nobody connected), "conn" (the server connected, its end is open),      *)
(* "eof" (the server connected and every copy of its end is closed).       *)
(***************************************************************************)
\* the peer of the server is not the repository's client
NoClient == [pc |-> "none", authenticated |-> FALSE, data_port |-> 0,
             rx |-> << >>, data |-> "none", response |-> 0]

\* the descriptor accept() gives the first connection
ClientFd == 1

\* what a step of the server on descriptor fd leaves in the sockets of the
\* client: the replies written; connect() of a transfer handler (the reply
\* 150 with no 425 after it), the child and the parent closing the data
\* socket (fork() failed: the parent alone)
arrive(c, kind, fd, codes) ==
    IF c.pc = "none" \/ fd # ClientFd THEN c
    ELSE [c EXCEPT !.rx = @ \o codes,
                   !.data = IF kind = "cmd" /\ codes = << 150 >> THEN "conn"
                            ELSE IF kind = "cmd" /\ codes = << 150, 451 >> THEN "eof"
                            ELSE IF kind = "child" /\ @ = "conn" THEN "eof"
                            ELSE @]

\* lines 177-202 of main with bytes_read > 0
ControlRead(fd, chunk, garbage, io) ==
    /\ Readable(fd)
    /\ io \in IoOutcomes
    /\ handle_command(fd, FirstLine(chunk), garbage, io)
    /\ lastCmd' = [kind |-> "cmd", fd |-> fd, slot |-> get_session_index(fd),
                   verb |-> IF FirstLine(chunk) = << >> THEN "" ELSE FirstLine(chunk)[1],
                   arg |-> IF Len(FirstLine(chunk)) >= 2 THEN FirstLine(chunk)[2]
                           ELSE garbage,
                   eols |-> Cardinality({k \in 1 .. Len(chunk) : chunk[k].eol}),
                   line |-> FirstLine(chunk)]
    /\ hist' = HistAfter(get_session_index(fd), lastCmd'.verb, lastCmd'.arg, replies')
    /\ send_response(fd, Len(replies'))
    /\ client' = arrive(client, "cmd", fd, replies')
    /\ UNCHANGED << build, users, master_fds >>

\* lines 182-189 of main: read() returned 0
ControlEOF(fd) ==
    /\ Readable(fd)
    /\ peer[fd] \in Gone /\ inbuf[fd] = << >>
    /\ client_sessions' = IF get_session_index(fd) # -1
                          THEN clean_up_session(get_session_index(fd))
                          ELSE client_sessions
    /\ open_fds' = open_fds \ {fd}
    /\ master_fds' = master_fds \ {fd}
    /\ hist' = IF get_session_index(fd) # -1
               THEN [hist EXCEPT ![get_session_index(fd)] = NoHist] ELSE hist
    /\ lastCmd' = [kind |-> "eof", fd |-> fd, slot |-> get_session_index(fd),
                   verb |-> "", arg |-> "", eols |-> 0, line |-> << >>]
    /\ replies' = << >>
    /\ touched' = {}
    /\ UNCHANGED << client, build, users, rnfr_filename, running, pc, xfer, fs, peer, inbuf >>

\* lines 140-174 of main: a client connected; at most n connections open
AcceptUpTo(n) ==
    /\ running /\ pc = "select"
    /\ master_fds \subseteq open_fds
    /\ Cardinality(open_fds) < n
    /\ Fds \ open_fds # {}
    /\ LET client_fd == CHOOSE g \in Fds \ open_fds : \A h \in Fds \ open_fds : g <= h
           free == {i \in Slots : client_sessions[i].control_fd = -1}
           i == IF free = {} THEN -1 ELSE CHOOSE j \in free : \A k \in free : j <= k
       IN  /\ master_fds' = master_fds \cup {client_fd}
           /\ open_fds' = open_fds \cup {client_fd}
           /\ client_sessions' =
                 IF i = -1 THEN client_sessions
                 ELSE [client_sessions EXCEPT ![i] =
                         [@ EXCEPT !.control_fd = client_fd, !.authenticated = FALSE,
                                   !.data_fd = -1, !.data_port = -1, !.data_ip = << >>,
                                   !.root_dir = ServerCwd, !.current_dir = ServerCwd]]
           /\ hist' = IF i = -1 THEN hist ELSE [hist EXCEPT ![i] = NoHist]
           /\ peer' = [peer EXCEPT ![client_fd] = "open"]
           /\ inbuf' = [inbuf EXCEPT ![client_fd] = << >>]
           /\ lastCmd' = [kind |-> "accept", fd |-> client_fd, slot |-> i,
                          verb |-> "", arg |-> "", eols |-> 0, line |-> << >>]
    /\ replies' = << 220 >>
    /\ touched' = {}
    /\ client' = arrive(client, "accept", lastCmd'.fd, replies')
    /\ UNCHANGED << build, users, rnfr_filename, running, pc, xfer, fs >>

\* lines 132-137 of main: select() on a set holding a closed descriptor
\* fails with EBADF, and the server exits
SelectFails ==
    /\ running /\ pc = "select"
    /\ ~(master_fds \subseteq open_fds)
    /\ running' = FALSE
    /\ lastCmd' = [kind |-> "exit", fd |-> -1, slot |-> -1,
                   verb |-> "", arg |-> "", eols |-> 0, line |-> << >>]
    /\ replies' = << >>
    /\ touched' = {}
    /\ UNCHANGED << client, build, users, client_sessions, rnfr_filename, master_fds, open_fds,
                    pc, xfer, fs, peer, inbuf, hist >>

\* what the forked child does before its exit(): the status it exits with,
\* the bytes it wrote to the data connection (got: the bytes it read from it)
child_process(f, x, got) ==
    IF x.kind = "LIST"
    THEN [status |-> 0, data |-> list_child(f, x.path), fs |-> f,
          touched |-> Acts(f, x.path)]
    ELSE IF x.kind = "RETR"
    THEN [status |-> retr_child(f, x.path).status, data |-> retr_child(f, x.path).data,
          fs |-> f, touched |-> Acts(f, x.path)]
    ELSE [status |-> stor_child(f, x.temp, x.path, got).status, data |-> got,
          fs |-> stor_child(f, x.temp, x.path, got).fs,
          touched |-> IF CanOpenWrite(f, x.temp)
                      THEN Acts(f, x.temp) \cup Acts(f, x.path) ELSE {}]

\* A faulty variant of child_close: the worker shares the descriptor table
\* of the dispatcher (a thread, not a forked process).
child_close_shared(fds, client_fd) == fds \ { client_fd }

\* close(client_fd) in the child, seen from the parent: fork() gave the child
\* its own descriptor table and its own copy of client_sessions, so the
\* descriptors of the parent are what they were
child_close(fds, client_fd) == fds

\* the forked child runs to its exit().  In STOR the peer sends payload: the
\* child's read() returns its chunks and then 0, or -1 after the first n of
\* them (ioerr: the data connection broke).
ChildRun ==
    /\ running /\ pc = "waitpid" /\ xfer.state = "running"
    /\ \E payload \in Payloads :
         \E n \in (IF xfer.kind = "STOR" THEN 0 .. Len(payload) ELSE {0}) :
            LET r == child_process(fs, xfer, SubSeq(payload, 1, n)) IN
            /\ xfer' = [xfer EXCEPT !.state = "exited", !.status = r.status,
                                    !.data = r.data,
                                    !.ioerr = (xfer.kind = "STOR" /\ n < Len(payload))]
            /\ fs' = r.fs
            /\ touched' = r.touched
    /\ lastCmd' = [kind |-> "child", fd |-> xfer.fd, slot |-> xfer.slot,
                   verb |-> xfer.kind, arg |-> "", eols |-> 0, line |-> << >>]
    /\ replies' = << >>
    /\ open_fds' = child_close(open_fds, xfer.fd)
    /\ client' = arrive(client, "child", xfer.fd, replies')
    /\ UNCHANGED << build, users, client_sessions, rnfr_filename, master_fds,
                    running, pc, peer, inbuf, hist >>

\* handle_child_process(SIGCHLD): the child has exited and the signal is
\* delivered before the parent's waitpid(pid) has collected it: the loop of
\* waitpid(-1, NULL, WNOHANG) reaps the child, and the parent's waitpid(pid)
\* will return -1 (ECHILD).  signal() of the C library restarts waitpid().
handle_child_process ==
    /\ running /\ pc = "waitpid"
    /\ xfer.state = "exited" /\ ~xfer.reaped
    /\ xfer' = [xfer EXCEPT !.reaped = TRUE]
    /\ lastCmd' = [kind |-> "sigchld", fd |-> xfer.fd, slot |-> xfer.slot,
                   verb |-> xfer.kind, arg |-> "", eols |-> 0, line |-> << >>]
    /\ replies' = << >>
    /\ touched' = {}
    /\ UNCHANGED << client, build, users, client_sessions, rnfr_filename, master_fds, open_fds,
                    running, pc, fs, peer, inbuf, hist >>

\* A faulty variant of WaitpidReturn: the parent does not wait for the child
\* (waitpid with WNOHANG).
WaitpidReturnNoHang ==
    /\ running /\ pc = "waitpid"
    /\ replies' = << 226 >>
    /\ pc' = "select"
    /\ xfer' = NoXfer
    /\ touched' = {}
    /\ lastCmd' = [kind |-> "resume", fd |-> xfer.fd, slot |-> xfer.slot,
                   verb |-> xfer.kind, arg |-> "", eols |-> 0, line |-> << >>]
    /\ client' = arrive(client, "resume", xfer.fd, replies')
    /\ UNCHANGED << build, users, client_sessions, rnfr_filename, master_fds, open_fds,
                    running, fs, peer, inbuf, hist >>

\* waitpid(pid, NULL, 0) returns in the parent, with the pid of the child or,
\* the signal handler having reaped it, with -1 (lastCmd.arg says which; the
\* code does not look): the end of the handler
WaitpidReturn ==
    /\ running /\ pc = "waitpid" /\ xfer.state = "exited"
    /\ replies' = << 226 >>
    /\ pc' = "select"
    /\ xfer' = NoXfer
    /\ touched' = {}
    /\ lastCmd' = [kind |-> "resume", fd |-> xfer.fd, slot |-> xfer.slot,
                   verb |-> xfer.kind,
                   arg |-> IF xfer.reaped THEN "ECHILD" ELSE "pid",
                   eols |-> 0, line |-> << >>]
    /\ send_response(xfer.fd, 1)
    /\ client' = arrive(client, "resume", xfer.fd, replies')
    /\ UNCHANGED << build, users, client_sessions, rnfr_filename, master_fds, open_fds,
                    fs, inbuf, hist >>

\* the client closes its end of the control connection: a FIN, or an RST
\* when it closes with bytes of the server unread or is killed
ClientClose(fd) ==
    /\ fd \in master_fds /\ peer[fd] = "open"
    /\ \E st \in { "closed", "reset" } : peer' = [peer EXCEPT ![fd] = st]
    /\ lastCmd' = [kind |-> "close", fd |-> fd, slot |-> -1,
                   verb |-> "", arg |-> "", eols |-> 0, line |-> << >>]
    /\ replies' = << >>
    /\ touched' = {}
    /\ UNCHANGED << client, build, users, client_sessions, rnfr_filename, master_fds, open_fds,
                    running, pc, xfer, fs, inbuf, hist >>

(***************************************************************************)
(* The clients of Spec: one command line per read, as the repository's     *)
(* client sends them (it waits for the reply before the next command).     *)
(***************************************************************************)
Commands ==
    { << "USER", "alice" >>, << "USER", "bob" >>, << "USER", "nobody" >>,
      << "PASS", "wonderland" >>, << "PASS", "donuts" >>, << "PASS", "bad" >>,
      << "PASS" >>, << "QUIT" >>, << "PWD" >>, << "NOOP" >>, << >>,
      << "CWD", "sub" >>, << "CWD", ".." >>, << "CWD", "../.." >>,
      << "PORT", "127,0,0,1,19,136" >>,
      << "LIST" >>, << "RETR", "a.txt" >>, << "RETR", "../bob/b.txt" >>,
      << "DELE", "../bob/b.txt" >> }

\* what the stack may hold where arg is read without having been written
Garbage == { "wonderland", "junk" }

\* the verbs whose handlers read arg
TakesArg == { "USER", "PASS", "PORT", "CWD", "RETR", "STOR",
              "MKD", "RMD", "DELE", "RNFR", "RNTO" }

\* the verbs whose handlers open a data connection
OpensData == { "LIST", "RETR", "STOR" }

\* one whole command line arrives and is read, for a line of cmds
ReadFrom(cmds) ==
    \E fd \in Fds : \E line \in cmds :
        \E garbage \in (IF Len(line) = 1 /\ line[1] \in TakesArg THEN Garbage ELSE {""}) :
            \E io \in (IF Len(line) >= 1 /\ line[1] \in OpensData
                        THEN IoOutcomes ELSE {"ok"}) :
                /\ peer[fd] = "open" /\ inbuf[fd] = << >>
                /\ ControlRead(fd, << Piece(line) >>, garbage, io)
                /\ UNCHANGED inbuf

ReadCommand == ReadFrom(Commands)

Accept == AcceptUpTo(MaxConn)

InitFs ==
    [p \in { << >>, << "users.csv" >>, << "srv" >>,
             << "srv", "alice" >>, << "srv", "alice", "sub" >>,
             << "srv", "alice", "a.txt" >>,
             << "srv", "bob" >>, << "srv", "bob", "b.txt" >> } |->
        IF p \in { << "users.csv" >>, << "srv", "alice", "a.txt" >>,
                   << "srv", "bob", "b.txt" >> }
        THEN File(<< "a" >>) ELSE Dir]

\* the server has started: load_users() has read table, the session table
\* is initialised, the listening socket is up
Boot(table, c) ==
    /\ client = c
    /\ build \in {"server_c", "part_000"}
    /\ users = table
    /\ client_sessions = [i \in Slots |-> EmptySession]
    /\ rnfr_filename = [i \in Slots |-> EmptyStr]
    /\ master_fds = {}
    /\ open_fds = {}
    /\ running = TRUE
    /\ pc = "select"
    /\ xfer = NoXfer
    /\ fs = InitFs
    /\ peer = [fd \in Fds |-> "none"]
    /\ inbuf = [fd \in Fds |-> << >>]
    /\ lastCmd = [kind |-> "init", fd |-> -1, slot |-> -1,
                  verb |-> "", arg |-> "", eols |-> 0, line |-> << >>]
    /\ replies = << >>
    /\ touched = {}
    /\ hist = [i \in Slots |-> NoHist]

\* the server started, its peers being programs other than client.c
Start(table) == Boot(table, NoClient)

Init == Start(TwoUsers)

Next ==
    \/ Accept
    \/ ReadCommand
    \/ \E fd \in Fds : ControlEOF(fd)
    \/ \E fd \in Fds : ClientClose(fd)
    \/ SelectFails
    \/ ChildRun
    \/ WaitpidReturn

Spec == Init /\ [][Next]_vars

(***************************************************************************)
(* The clients of SpecStream: the bytes of the command lines are in        *)
(* flight on the connection, and a read() of the server returns any        *)
(* number of the pieces that have arrived.  A line is sent whole, or cut   *)
(* after its verb.                                                         *)
(***************************************************************************)
\* the most pieces in flight on a connection
MaxBuf == 2

StreamCommands ==
    { << "USER", "alice" >>, << "PASS", "wonderland" >>, << "PWD" >>, << "NOOP" >> }

\* the pieces of a line: whole, or the verb and then the rest
Pieces(line, cut) ==
    IF cut /\ Len(line) >= 2
    THEN << [tokens |-> << line[1] >>, eol |-> FALSE],
            [tokens |-> Tail(line), eol |-> TRUE] >>
    ELSE << Piece(line) >>

\* the client writes a command line of cmds to the control connection, with
\* at most cap pieces in flight
SendFrom(cmds, cuts, cap) ==
    \E fd \in Fds : \E line \in cmds : \E cut \in cuts :
        /\ fd \in master_fds /\ peer[fd] = "open"
        /\ Len(inbuf[fd]) + Len(Pieces(line, cut)) <= cap
        /\ inbuf' = [inbuf EXCEPT ![fd] = @ \o Pieces(line, cut)]
        /\ lastCmd' = [kind |-> "send", fd |-> fd, slot |-> -1,
                       verb |-> "", arg |-> "", eols |-> 0, line |-> << >>]
        /\ replies' = << >>
        /\ touched' = {}
        /\ UNCHANGED << client, build, users, client_sessions, rnfr_filename, master_fds,
                        open_fds, running, pc, xfer, fs, peer, hist >>

ClientSend == SendFrom(StreamCommands, BOOLEAN, MaxBuf)

\* read() on fd returns the first n pieces in flight
ServerReadOn(fd) ==
    \E n \in 1 .. MaxBuf :
        /\ n <= Len(inbuf[fd])
        /\ \E garbage \in (IF Len(FirstLine(SubSeq(inbuf[fd], 1, n))) = 1
                                /\ FirstLine(SubSeq(inbuf[fd], 1, n))[1] \in TakesArg
                             THEN Garbage ELSE {""}) :
              \E io \in (IF FirstLine(SubSeq(inbuf[fd], 1, n)) # << >>
                             /\ FirstLine(SubSeq(inbuf[fd], 1, n))[1] \in OpensData
                          THEN IoOutcomes ELSE {"ok"}) :
                 ControlRead(fd, SubSeq(inbuf[fd], 1, n), garbage, io)
        /\ inbuf' = [inbuf EXCEPT ![fd] = SubSeq(@, n + 1, Len(@))]

ServerRead == \E fd \in Fds : ServerReadOn(fd)

NextStream ==
    \/ Accept
    \/ ClientSend
    \/ ServerRead
    \/ \E fd \in Fds : ControlEOF(fd)
    \/ \E fd \in Fds : ClientClose(fd)

SpecStream == Init /\ [][NextStream]_vars

(***************************************************************************)
(* The clients of SpecTwo: as many connections as the table has slots,     *)
(* each client with at most one command line in flight (the repository's   *)
(* client reads the reply before it sends the next command).               *)
(***************************************************************************)
TwoCommands ==
    { << "USER", "alice" >>, << "PASS", "wonderland" >>,
      << "PORT", "127,0,0,1,19,136" >>, << "RETR", "a.txt" >>, << "NOOP" >> }

AcceptAll == AcceptUpTo(MAX_CLIENTS)

SendTwo == SendFrom(TwoCommands, {FALSE}, 1)

NextTwo ==
    \/ AcceptAll
    \/ SendTwo
    \/ ServerRead
    \/ ChildRun
    \/ WaitpidReturn

SpecTwo == Init /\ [][NextTwo]_vars

(***************************************************************************)
(* The clients of SpecXfer: one logged-in user and the data commands.      *)
(***************************************************************************)
XferCommands ==
    { << "USER", "alice" >>, << "PASS", "wonderland" >>,
      << "PORT", "127,0,0,1,19,136" >>,
      << "LIST" >>, << "RETR", "a.txt" >>, << "RETR", "nofile" >>,
      << "STOR", "a.txt" >>, << "STOR", "c.txt" >>, << "STOR", "sub" >>,
      << "STOR", "../bob/c.txt" >> }

ReadXfer == ReadFrom(XferCommands)

NextXfer ==
    \/ Accept
    \/ ReadXfer
    \/ \E fd \in Fds : ControlEOF(fd)
    \/ \E fd \in Fds : ClientClose(fd)
    \/ ChildRun
    \/ handle_child_process
    \/ WaitpidReturn

SpecXfer == Init /\ [][NextXfer]_vars

(***************************************************************************)
(* The clients of SpecFull: one connection more than the table has slots,  *)
(* each client with at most one command line in flight.                    *)
(***************************************************************************)
FullCommands == { << "USER", "alice" >>, << "NOOP" >> }

AcceptOver == AcceptUpTo(MAX_CLIENTS + 1)

SendFull == SendFrom(FullCommands, {FALSE}, 1)

NextFull ==
    \/ AcceptOver
    \/ SendFull
    \/ ServerRead
    \/ \E fd \in Fds : ControlEOF(fd)
    \/ \E fd \in Fds : ClientClose(fd)

SpecFull == Init /\ [][NextFull]_vars

(***************************************************************************)
(* The clients of SpecDrop: a client may send one more line after its data *)
(* command, and drops the control connection while the child of its        *)
(* transfer is running.                                                    *)
(***************************************************************************)
DropCommands ==
    { << "USER", "alice" >>, << "PASS", "wonderland" >>,
      << "PORT", "127,0,0,1,19,136" >>, << "RETR", "a.txt" >>, << "NOOP" >> }

SendDrop == SendFrom(DropCommands, {FALSE}, 1)

\* the client of the running transfer closes its control connection
CloseDuringTransfer ==
    /\ pc = "waitpid" /\ xfer.state = "running"
    /\ ClientClose(xfer.fd)

NextDrop ==
    \/ AcceptAll
    \/ SendDrop
    \/ ServerRead
    \/ CloseDuringTransfer
    \/ \E fd \in Fds : ControlEOF(fd)
    \/ ChildRun
    \/ WaitpidReturn

SpecDrop == Init /\ [][NextDrop]_vars

(***************************************************************************)
(* The clients of SpecRename: one logged-in user, RNFR and RNTO.           *)
(***************************************************************************)
RenameCommands ==
    { << "USER", "alice" >>, << "PASS", "wonderland" >>,
      << "RNFR", "a.txt" >>, << "RNFR", "nofile" >>,
      << "RNTO", "c.txt" >>, << "RNTO", "sub" >>,
      << "PWD" >>, << "CWD", "sub" >> }

ReadRename == ReadFrom(RenameCommands)

NextRename ==
    \/ Accept
    \/ ReadRename
    \/ \E fd \in Fds : ControlEOF(fd)
    \/ \E fd \in Fds : ClientClose(fd)

SpecRename == Init /\ [][NextRename]_vars

(***************************************************************************)
(* The clients of SpecPort: one logged-in user, PORT arguments of every    *)
(* shape, and LIST.                                                        *)
(***************************************************************************)
PortCommands ==
    { << "USER", "alice" >>, << "PASS", "wonderland" >>,
      << "PORT", "127,0,0,1,19,136" >>, << "PORT", "127,0,0,1,300,7" >>,
      << "PORT", "127,0,0,1,-1,200" >>, << "PORT", "127,0,0,1,-1,255" >>,
      << "PORT", "127,0,0,1" >>, << "PORT" >>, << "LIST" >> }

ReadPort == ReadFrom(PortCommands)

NextPort ==
    \/ Accept
    \/ ReadPort
    \/ \E fd \in Fds : ControlEOF(fd)
    \/ \E fd \in Fds : ClientClose(fd)
    \/ ChildRun
    \/ WaitpidReturn

SpecPort == Init /\ [][NextPort]_vars

(***************************************************************************)
(* SpecDup: the server started on a users.csv with a repeated user name,   *)
(* and clients that log in.                                                *)
(***************************************************************************)
DupCommands ==
    { << "USER", "alice" >>, << "USER", "bob" >>,
      << "PASS", "wonderland" >>, << "PASS", "rabbit" >>, << "PASS", "donuts" >>,
      << "PASS", "bad" >>, << "PWD" >> }

ReadDup == ReadFrom(DupCommands)

InitDup == Start(DupUsers)

NextDup ==
    \/ Accept
    \/ ReadDup
    \/ \E fd \in Fds : ControlEOF(fd)
    \/ \E fd \in Fds : ClientClose(fd)

SpecDup == InitDup /\ [][NextDup]_vars

(***************************************************************************)
(* The clients of SpecCwd: one logged-in user moving about its directory.  *)
(***************************************************************************)
CwdCommands ==
    { << "USER", "alice" >>, << "PASS", "wonderland" >>,
      << "CWD", "a.txt" >>, << "CWD", "sub" >>, << "CWD", "nodir" >>,
      << "CWD", ".." >>, << "CWD", "/" >>, << "PWD" >> }

ReadCwd == ReadFrom(CwdCommands)

NextCwd ==
    \/ Accept
    \/ ReadCwd
    \/ \E fd \in Fds : ControlEOF(fd)
    \/ \E fd \in Fds : ClientClose(fd)

SpecCwd == Init /\ [][NextCwd]_vars

(***************************************************************************)
(* The clients of SpecArg: one logged-in user, lines with no argument and  *)
(* lines whose argument has a space in it.                                 *)
(***************************************************************************)
ArgCommands ==
    { << "USER", "alice" >>, << "PASS", "wonderland" >>,
      << "PORT", "127,0,0,1,19,136" >>,
      << "STOR", "my", "file.txt" >>, << "STOR", "c.txt" >>,
      << "CWD" >>, << "PWD" >> }

ReadArg == ReadFrom(ArgCommands)

NextArg ==
    \/ Accept
    \/ ReadArg
    \/ \E fd \in Fds : ControlEOF(fd)
    \/ \E fd \in Fds : ClientClose(fd)
    \/ ChildRun
    \/ WaitpidReturn

SpecArg == Init /\ [][NextArg]_vars

(***************************************************************************)
(* The clients of SpecPair: as many connections as the table has slots,    *)
(* two users, commands that write session fields.                          *)
(***************************************************************************)
PairCommands ==
    { << "USER", "alice" >>, << "USER", "bob" >>,
      << "PASS", "wonderland" >>, << "PASS", "donuts" >>,
      << "PORT", "127,0,0,1,19,136" >>, << "CWD", "sub" >>,
      << "RNFR", "a.txt" >> }

ReadPair == ReadFrom(PairCommands)

NextPair ==
    \/ AcceptAll
    \/ ReadPair
    \/ \E fd \in Fds : ControlEOF(fd)
    \/ \E fd \in Fds : ClientClose(fd)

SpecPair == Init /\ [][NextPair]_vars

(***************************************************************************)
(* The client program of src/code/client.c on the first connection.  It    *)
(* blocks in read() of the control socket, in accept() and in read() of    *)
(* the data socket; each action below runs from one such call to the       *)
(* next.  client.pc says which call it is in.                              *)
(***************************************************************************)
\* the port of the data socket: a 16-bit number (ntohs)
MaxPortNumber == 65535

\* sprintf("%d") of n
RECURSIVE sprintf_d(_)
sprintf_d(n) ==
    IF n < 0 THEN "-" \o sprintf_d(0 - n)
    ELSE IF n < 10 THEN CharAt(Digits, n + 1)
    ELSE sprintf_d(n \div 10) \o CharAt(Digits, (n % 10) + 1)

\* A faulty variant of port_command: the two port numbers are swapped.
port_command_swapped(d) ==
    << "PORT", "127,0,0,1," \o sprintf_d(d % 256) \o "," \o sprintf_d(d \div 256) >>

\* sprintf(port_command, "PORT 127,0,0,1,%d,%d", data_port / 256, data_port % 256)
port_command(d) ==
    << "PORT", "127,0,0,1," \o sprintf_d(d \div 256) \o "," \o sprintf_d(d % 256) >>

\* receive_response: one read() returns the first n replies that have
\* arrived, and the response is cut at the first line end
receive_response(c, n) ==
    [c EXCEPT !.response = c.rx[1], !.rx = SubSeq(c.rx, n + 1, Len(c.rx))]

\* a step of the client: its new state c, and the lines send_command wrote
client_step(c, lines) ==
    /\ running /\ ClientFd \in master_fds \cap open_fds
    /\ client' = c
    /\ inbuf' = [inbuf EXCEPT ![ClientFd] = @ \o lines]
    /\ lastCmd' = [kind |-> "client", fd |-> ClientFd, slot |-> -1,
                   verb |-> "", arg |-> "", eols |-> 0, line |-> << >>]
    /\ replies' = << >>
    /\ touched' = {}
    /\ UNCHANGED << build, users, client_sessions, rnfr_filename, master_fds,
                    open_fds, running, pc, xfer, fs, peer, hist >>

\* main: the greeting is read, the prompt follows
client_main ==
    /\ client.pc = "start"
    /\ \E n \in 1 .. Len(client.rx) :
          client_step([receive_response(client, n) EXCEPT !.pc = "prompt"], << >>)

\* handle_user_command and handle_pass_command up to receive_response
client_login(typed) ==
    /\ client.pc = "prompt"
    /\ \E line \in typed :
          client_step([client EXCEPT !.pc = line[1]], << Piece(line) >>)

\* handle_user_command and handle_pass_command from receive_response on
client_login_reply ==
    /\ client.pc \in {"USER", "PASS"}
    /\ \E n \in 1 .. Len(client.rx) :
          LET c == receive_response(client, n) IN
          client_step([c EXCEPT !.pc = "prompt",
                                !.authenticated =
                                    @ \/ (client.pc = "PASS" /\ c.response = 230)],
                      << >>)

\* handle_list_command when authenticated, up to receive_response of
\* setup_data_connection: the system assigns one of ports
client_setup_data_connection(ports) ==
    /\ client.pc = "prompt" /\ client.authenticated
    /\ \E d \in ports :
          client_step([client EXCEPT !.pc = "PORT", !.data_port = d, !.data = "listen"],
                      << Piece(port_command(d)) >>)

\* the end of setup_data_connection and handle_list_command up to its
\* receive_response: the reply to PORT is printed, LIST is sent
client_send_list ==
    /\ client.pc = "PORT"
    /\ \E n \in 1 .. Len(client.rx) :
          client_step([receive_response(client, n) EXCEPT !.pc = "LIST"],
                      << Piece(<< "LIST" >>) >>)

\* handle_list_command: the first reply to LIST is read; a reply that
\* starts with 5 ends the command, any other leads to accept()
client_list_reply ==
    /\ client.pc = "LIST"
    /\ \E n \in 1 .. Len(client.rx) :
          LET c == receive_response(client, n) IN
          client_step(IF c.response \div 100 = 5
                      THEN [c EXCEPT !.pc = "prompt", !.data = "none"]
                      ELSE [c EXCEPT !.pc = "accept"],
                      << >>)

\* accept(data_fd) returns: the server has connected
client_accept ==
    /\ client.pc = "accept" /\ client.data \in {"conn", "eof"}
    /\ client_step([client EXCEPT !.pc = "data"], << >>)

\* the read loop on the data connection ends with read() returning 0; both
\* data sockets are closed
client_read_listing ==
    /\ client.pc = "data" /\ client.data = "eof"
    /\ client_step([client EXCEPT !.pc = "final", !.data = "none"], << >>)

\* the final receive_response of handle_list_command
client_final_response ==
    /\ client.pc = "final"
    /\ \E n \in 1 .. Len(client.rx) :
          client_step([receive_response(client, n) EXCEPT !.pc = "prompt"], << >>)

\* what the user types to log in
Typed == { << "USER", "alice" >>, << "PASS", "wonderland" >> }

\* the ports the system assigns in SpecClient
ClientPorts == { 50000, MaxPortNumber }

ClientLogin == client_login(Typed)

ClientSetup == client_setup_data_connection(ClientPorts)

\* the server started, client.c about to connect
InitClient == Boot(TwoUsers, [NoClient EXCEPT !.pc = "start"])

NextClient ==
    \/ Accept
    \/ ServerRead
    \/ ChildRun
    \/ WaitpidReturn
    \/ client_main
    \/ ClientLogin
    \/ client_login_reply
    \/ ClientSetup
    \/ client_send_list
    \/ client_list_reply
    \/ client_accept
    \/ client_read_listing
    \/ client_final_response

SpecClient == InitClient /\ [][NextClient]_vars

(***************************************************************************)
(* SpecTrip: the client logs in and sets up data connections on every      *)
(* port; the server handles the PORT lines.                                *)
(***************************************************************************)
AllPorts == 0 .. MaxPortNumber

\* the user logs in once
LoginOnce == ~client.authenticated /\ client_login(Typed)

SetupAny == client_setup_data_connection(AllPorts)

NextTrip ==
    \/ Accept
    \/ ServerRead
    \/ client_main
    \/ LoginOnce
    \/ client_login_reply
    \/ SetupAny

SpecTrip == InitClient /\ [][NextTrip]_vars

(***************************************************************************)
(* The properties.                                                         *)
(***************************************************************************)
\* the step handles a command line of the session in slot s
Cmd(s) == lastCmd'.kind = "cmd" /\ lastCmd'.slot = s

\* the state just reached was reached by handling a command of slot s
Was(s, verb, codes) ==
    lastCmd.kind = "cmd" /\ lastCmd.slot = s /\ lastCmd.verb = verb /\ replies = codes

\* the jail of user u: <server-root>/u
Jail(u) == ServerCwd \o << u >>

\* the stored password of user u
StoredPassword(u) == users[CHOOSE k \in 1 .. Len(users) : users[k].username = u].password

NeedLogin == { "PORT", "LIST", "CWD", "PWD", "RETR", "STOR" }
FsVerbs == { "RETR", "STOR", "MKD", "RMD", "DELE", "RNFR", "RNTO", "LIST" }

\* C1: a command of a session that is not authenticated, with a verb other
\* than USER, PASS and QUIT, is answered 530, changes no session field,
\* starts no transfer and does nothing on the file system.
C1_NotLoggedIn ==
    [][\A s \in Slots :
         (Cmd(s) /\ ~client_sessions[s].authenticated
                 /\ lastCmd'.verb \notin {"USER", "PASS", "QUIT", ""})
         => /\ replies' = << 530 >>
            /\ client_sessions' = client_sessions
            /\ rnfr_filename' = rnfr_filename
            /\ xfer' = xfer /\ pc' = pc
            /\ touched' = {} /\ fs' = fs]_vars

\* C1 happens: a RETR of a session with a named user and no login got 530
C1_Witness ==
    \E s \in Slots :
        /\ Was(s, "RETR", << 530 >>)
        /\ client_sessions[s].username = "alice"
        /\ ~client_sessions[s].authenticated

\* C2: after a USER answered 331 and until a PASS is answered 230, the
\* session is not authenticated and names that user, and every PORT, LIST,
\* CWD, PWD, RETR and STOR of the session is answered 530.
C2_UserResetsLogin ==
    [][\A s \in Slots :
         /\ (Cmd(s) /\ lastCmd'.verb = "USER" /\ replies' = << 331 >>)
            => (~client_sessions'[s].authenticated
                /\ client_sessions'[s].username = lastCmd'.arg)
         /\ (Cmd(s) /\ hist[s].named # "" /\ lastCmd'.verb \in NeedLogin)
            => replies' = << 530 >>]_vars

\* C3: the paths a RETR, STOR, MKD, RMD, DELE, RNFR, RNTO or LIST of an
\* authenticated session acts on are the jail of its user or below it, and
\* an argument that resolves outside the jail is answered 550 with nothing
\* touched.
C3_ActsInJail ==
    [][\A s \in Slots :
         /\ (lastCmd'.kind \in {"cmd", "child"} /\ lastCmd'.slot = s
                /\ lastCmd'.verb \in FsVerbs /\ client_sessions[s].authenticated)
            => \A p \in touched' : Under(p, Jail(hist[s].verified))
         /\ (Cmd(s) /\ lastCmd'.verb \in FsVerbs \ {"LIST"}
                /\ client_sessions[s].authenticated
                /\ Canon(fs, JoinPath(client_sessions[s].current_dir, lastCmd'.arg)) # NoEnt
                /\ ~Under(Canon(fs, JoinPath(client_sessions[s].current_dir, lastCmd'.arg)),
                          Jail(hist[s].verified)))
            => (replies' = << 550 >> /\ touched' = {} /\ fs' = fs)]_vars

\* C4: the current directory of an authenticated session is the jail of the
\* user whose password was verified, or a directory below it.
C4_CurrentDirInJail ==
    \A s \in Slots :
        (client_sessions[s].control_fd # -1 /\ client_sessions[s].authenticated)
        => Under(Canon(fs, client_sessions[s].current_dir), Jail(hist[s].verified))

\* C5: a CWD of an authenticated session whose target resolves outside the
\* jail is answered 550 and leaves current_dir as it was.
C5_CwdEscapeRefused ==
    [][\A s \in Slots :
         (Cmd(s) /\ lastCmd'.verb = "CWD" /\ client_sessions[s].authenticated
            /\ ~Under(Canon(fs, JoinPath(client_sessions[s].current_dir, lastCmd'.arg)),
                      Jail(hist[s].verified)))
         => (replies' = << 550 >>
             /\ client_sessions'[s].current_dir = client_sessions[s].current_dir)]_vars

\* C6: a PASS that does not match the named user is answered 530 and leaves
\* the session not authenticated; a PWD right after it is answered 530 and a
\* PASS right after it is answered 503.
C6_BadPassToUnauth ==
    [][\A s \in Slots :
         /\ (Cmd(s) /\ lastCmd'.verb = "PASS" /\ client_sessions[s].username # ""
                /\ ~authenticate_user(client_sessions[s].username, lastCmd'.arg))
            => (replies' = << 530 >> /\ ~client_sessions'[s].authenticated)
         /\ (Was(s, "PASS", << 530 >>) /\ Cmd(s) /\ lastCmd'.verb = "PWD")
            => replies' = << 530 >>
         /\ (Was(s, "PASS", << 530 >>) /\ Cmd(s) /\ lastCmd'.verb = "PASS")
            => replies' = << 503 >>]_vars

\* C7: a USER naming no user of the store is answered 530, and a PASS right
\* after it is answered 503 whatever its password.
C7_UnknownUserClears ==
    [][\A s \in Slots :
         /\ (Cmd(s) /\ lastCmd'.verb = "USER" /\ ~user_exists(lastCmd'.arg))
            => replies' = << 530 >>
         /\ (Was(s, "USER", << 530 >>) /\ Cmd(s) /\ lastCmd'.verb = "PASS")
            => replies' = << 503 >>]_vars

\* C8: a PASS of a session with no named user, or of an authenticated
\* session, is answered 503 and leaves authenticated, username and
\* current_dir as they were.
C8_PassOnlyAfterUser ==
    [][\A s \in Slots :
         (Cmd(s) /\ lastCmd'.verb = "PASS"
            /\ (client_sessions[s].authenticated \/ client_sessions[s].username = ""))
         => /\ replies' = << 503 >>
            /\ client_sessions'[s].authenticated = client_sessions[s].authenticated
            /\ client_sessions'[s].username = client_sessions[s].username
            /\ client_sessions'[s].current_dir = client_sessions[s].current_dir]_vars

\* C9: the first command of a session being USER u with u in the store, it
\* is answered 331; the next command being PASS with the stored password of
\* u, it is answered 230 and the session is then authenticated as u with
\* current_dir = <server-root>/u.
C9_Login ==
    [][\A s \in Slots :
         /\ (hist[s].first = "new" /\ Cmd(s) /\ lastCmd'.verb = "USER"
                /\ user_exists(lastCmd'.arg))
            => replies' = << 331 >>
         /\ (hist[s].first = "one" /\ Was(s, "USER", << 331 >>)
                /\ Cmd(s) /\ lastCmd'.verb = "PASS"
                /\ lastCmd'.arg = StoredPassword(lastCmd.arg))
            => /\ replies' = << 230 >>
               /\ client_sessions'[s].authenticated
               /\ client_sessions'[s].username = lastCmd.arg
               /\ client_sessions'[s].current_dir = Jail(lastCmd.arg)
               /\ IsDir(fs', Jail(lastCmd.arg))]_vars

\* C9 happens: the second command of a session, a PASS, logged bob in
C9_Witness ==
    \E s \in Slots :
        /\ Was(s, "PASS", << 230 >>)
        /\ lastCmd.arg = "donuts"
        /\ hist[s].first = "more"
        /\ hist[s].verified = "bob"
        /\ client_sessions[s].current_dir = << "srv", "bob" >>

\* C10: a read of the control connection writes one reply for each command
\* line it completes, however the pieces of the lines are cut and grouped
\* (commands without a data connection).
C10_OneReplyPerLine ==
    [][lastCmd'.kind = "cmd" => Len(replies') = lastCmd'.eols]_vars

\* C11: a LIST, RETR or STOR that starts a transfer writes one 150 before
\* any byte of the transfer, nothing on the control connection while the
\* transfer runs, and one final reply once the transfer is over.
C11_ReplyOrder ==
    [][/\ (pc = "select" /\ pc' = "waitpid")
          => (replies' = << 150 >> /\ xfer'.state = "running" /\ xfer'.data = << >>
              /\ lastCmd'.verb \in OpensData)
       /\ (pc = "waitpid" /\ pc' = "waitpid") => replies' = << >>
       /\ lastCmd'.kind = "child" => (pc = "waitpid" /\ xfer.state = "running")
       /\ (pc = "waitpid" /\ pc' = "select")
          => (xfer.state = "exited" /\ Len(replies') = 1 /\ replies'[1] # 150)]_vars

\* C11 happens: a RETR whose bytes were sent got its final reply
C11_Witness ==
    /\ lastCmd.kind = "resume" /\ lastCmd.verb = "RETR"
    /\ Len(replies) = 1
    /\ pc = "select"

\* C12: a command is answered 425 only when no 150 was written for it: no
\* command is answered 150 and then 425.
C12_No425After150 ==
    [][lastCmd'.kind = "cmd"
       => \A k \in 1 .. Len(replies') :
             replies'[k] = 425 => \A j \in 1 .. (k - 1) : replies'[j] # 150]_vars

\* C13: a LIST, RETR or STOR of an authenticated session with a data
\* endpoint set leaves no data endpoint, whether it succeeds or fails, and a
\* data command right after a data command is answered 425.
C13_EndpointConsumed ==
    [][\A s \in Slots :
         /\ (Cmd(s) /\ lastCmd'.verb \in OpensData
                /\ client_sessions[s].authenticated
                /\ client_sessions[s].data_port # -1)
            => (client_sessions'[s].data_port = -1
                /\ client_sessions'[s].data_ip = << >>)
         /\ (lastCmd.kind \in {"cmd", "resume"} /\ lastCmd.slot = s
                /\ lastCmd.verb \in OpensData
                /\ Cmd(s) /\ lastCmd'.verb \in OpensData
                /\ client_sessions[s].authenticated)
            => replies' = << 425 >>]_vars

\* C14: a LIST, RETR or STOR of an authenticated session with no data
\* endpoint is answered 425 alone, starts no child, touches no file and
\* leaves the session table as it was.
C14_NoEndpoint425 ==
    [][\A s \in Slots :
         (Cmd(s) /\ lastCmd'.verb \in OpensData
            /\ client_sessions[s].authenticated
            /\ client_sessions[s].data_port = -1)
         => /\ replies' = << 425 >>
            /\ client_sessions' = client_sessions
            /\ pc' = pc /\ xfer' = xfer
            /\ fs' = fs /\ touched' = {}]_vars

\* C14 happens: a STOR right after the login, with no PORT, got 425
C14_Witness ==
    \E s \in Slots :
        /\ Was(s, "STOR", << 425 >>)
        /\ client_sessions[s].authenticated
        /\ client_sessions[s].data_port = -1
        /\ pc = "select"
        /\ ~Exists(fs, << "srv", "alice", "c.txt" >>)

\* the child of the transfer failed: it exited with an error status, or its
\* read of the data connection ended with an error
WorkerFailed(x) == x.status # 0 \/ x.ioerr

\* C15: the final reply of a transfer is 226 only when the child completed
\* cleanly; when the child failed it is 451 or 550.
C15_FinalReplyTellsOutcome ==
    [][(pc = "waitpid" /\ pc' = "select")
       => IF WorkerFailed(xfer) THEN replies' \in { << 451 >>, << 550 >> }
          ELSE replies' = << 226 >>]_vars

\* C17: the child of a STOR leaves under the final name either what was
\* there before or, the data connection having closed without an error, a
\* file with all the bytes the peer sent.
C17_StorAtomic ==
    [][(lastCmd'.kind = "child" /\ xfer.kind = "STOR")
       => \A p \in DOMAIN fs' :
             p = Canon(fs, xfer.path)
             => \/ (p \in DOMAIN fs /\ fs'[p] = fs[p])
                \/ (~xfer'.ioerr /\ \E payload \in Payloads : fs'[p] = File(payload))]_vars

\* C18: when a STOR gets its final reply its temporary file is gone, and
\* the reply is 451 when the child failed.
C18_NoTempLeft ==
    [][(pc = "waitpid" /\ pc' = "select" /\ xfer.kind = "STOR")
       => /\ ~Exists(fs', Canon(fs', xfer.temp))
          /\ WorkerFailed(xfer) => replies' = << 451 >>]_vars

\* C16: while the child of one session's transfer is running, a command
\* that has arrived on the control connection of another session can be
\* read and answered.
C16_OthersServedDuringTransfer ==
    \A fd \in Fds :
        (/\ pc = "waitpid" /\ xfer.state = "running"
         /\ fd # xfer.fd
         /\ fd \in master_fds \cap open_fds
         /\ get_session_index(fd) # -1
         /\ inbuf[fd] # << >>)
        => ENABLED ServerReadOn(fd)

\* C19: the first reply on a connection is 220, and once a QUIT has been
\* answered 221 the next step on that connection writes no reply.
C19_NoReplyAfterQuit ==
    [][/\ lastCmd'.kind = "accept" => replies' = << 220 >>
       /\ (lastCmd'.kind = "cmd" /\ lastCmd'.verb = "QUIT") => replies' = << 221 >>
       /\ (lastCmd.kind = "cmd" /\ lastCmd.verb = "QUIT"
             /\ lastCmd'.kind # "accept" /\ lastCmd'.fd = lastCmd.fd)
          => replies' = << >>]_vars

\* C20: the descriptors select() watches are open and the main loop is
\* running, in every state (after a QUIT as well).
C20_QuitEndsOneSession ==
    /\ master_fds \subseteq open_fds
    /\ running

\* C21: at most MAX_CLIENTS slots are in use, and every connection that is
\* open and watched owns a slot: a connection accepted with every slot in use
\* does not stay open without a session.
C21_AcceptedOwnSlot ==
    /\ Cardinality({s \in Slots : client_sessions[s].control_fd # -1}) <= MAX_CLIENTS
    /\ \A fd \in master_fds \cap open_fds : get_session_index(fd) # -1

C23_FinalBeforeNext ==
    [][/\ pc = "waitpid"
          => /\ lastCmd'.kind # "cmd"
             /\ SubSeq(inbuf'[xfer.fd], 1, Len(inbuf[xfer.fd])) = inbuf[xfer.fd]
             /\ replies' # << >>
                => /\ lastCmd'.kind = "resume"
                   /\ lastCmd'.fd = xfer.fd /\ lastCmd'.slot = xfer.slot
                   /\ pc' = "select"
                   /\ Len(replies') = 1 /\ replies'[1] # 150
       /\ (lastCmd'.kind = "cmd" /\ replies' # << >> /\ replies'[1] = 150)
          => \/ replies' = << 150 >> /\ pc' = "waitpid" /\ xfer'.fd = lastCmd'.fd
             \/ Len(replies') = 2 /\ replies'[2] # 150 /\ pc' = "select"
       /\ \A k \in 2 .. Len(replies') : replies'[k] # 150]_vars

\* C23 happens: the final reply of a RETR was written while a line sent
\* after the RETR waits unread on the same connection
C23_Witness ==
    /\ lastCmd.kind = "resume" /\ lastCmd.verb = "RETR"
    /\ replies = << 226 >>
    /\ inbuf[lastCmd.fd] # << >>
    /\ pc = "select"

\* C24: the final reply of a transfer is written on the transfer's own
\* connection, still held by its session; while a connection whose peer is
\* gone is watched the server is running, and once the loop is back in
\* select() with nothing left to read on it the end of file can be read; the
\* read of the end of file frees the slot, closes the descriptor and takes
\* it out of the watched set.
C24_SlotReclaimed ==
    [][/\ (pc = "waitpid" /\ pc' = "select")
          => /\ lastCmd'.fd = xfer.fd
             /\ client_sessions[xfer.slot].control_fd = xfer.fd
       /\ \A fd \in master_fds' : peer'[fd] \in Gone => running'
       /\ \A fd \in master_fds \cap open_fds :
             (running /\ pc = "select" /\ peer[fd] \in Gone /\ inbuf[fd] = << >>)
             => ENABLED ControlEOF(fd)
       /\ lastCmd'.kind = "eof"
          => /\ lastCmd'.fd \notin open_fds' \cup master_fds'
             /\ lastCmd'.slot # -1 => client_sessions'[lastCmd'.slot].control_fd = -1
             /\ \A i \in Slots : client_sessions'[i].control_fd # lastCmd'.fd]_vars

\* C25 (src/code/server.c): an RNTO of an authenticated session with no
\* stored rename source is answered 503 and renames nothing; after every
\* RNTO of an authenticated session, renamed or not, no rename source is
\* stored for it, and an RNTO right after an RNTO is answered 503.
C25_RntoNeedsSource ==
    [][\A s \in Slots :
         (build = "server_c" /\ Cmd(s) /\ lastCmd'.verb = "RNTO"
            /\ client_sessions[s].authenticated)
         => /\ rnfr_filename[s] = EmptyStr
               => (replies' = << 503 >> /\ fs' = fs /\ touched' = {})
            /\ rnfr_filename[s] # EmptyStr
               => replies' \in { << 250 >>, << 550 >> }
            /\ rnfr_filename'[s] = EmptyStr
            /\ Was(s, "RNTO", replies) => replies' = << 503 >>]_vars

\* C25 happens: an RNTO was answered 503 in a session that had renamed
\* a.txt to c.txt
C25_Witness ==
    \E s \in Slots :
        /\ Was(s, "RNTO", << 503 >>)
        /\ client_sessions[s].authenticated
        /\ rnfr_filename[s] = EmptyStr
        /\ Exists(fs, << "srv", "alice", "c.txt" >>)
        /\ ~Exists(fs, << "srv", "alice", "a.txt" >>)

\* C26 (src/code/server.c): an RNTO of an authenticated session whose
\* previous command was not RNFR is answered 503 and renames nothing: the
\* name RNFR stored does not outlive the command after the RNFR.
C26_RnfrConsumedByNext ==
    [][\A s \in Slots :
         (build = "server_c" /\ client_sessions[s].authenticated
            /\ lastCmd.kind = "cmd" /\ lastCmd.slot = s /\ lastCmd.verb # "RNFR"
            /\ Cmd(s) /\ lastCmd'.verb = "RNTO")
         => (replies' = << 503 >> /\ fs' = fs)]_vars

\* the argument of a PORT is six integers, each in 0 .. 255
WellFormedPort(a) ==
    /\ Len(PortArg(a)) = 6
    /\ \A k \in 1 .. Len(PortArg(a)) : PortArg(a)[k] \in 0 .. 255

\* C27: a PORT of an authenticated session whose argument is not six
\* integers in 0 .. 255 is answered 501 and leaves the data endpoint of the
\* session as it was.
C27_BadPortRefused ==
    [][\A s \in Slots :
         (Cmd(s) /\ lastCmd'.verb = "PORT" /\ client_sessions[s].authenticated
            /\ ~WellFormedPort(lastCmd'.arg))
         => /\ replies' = << 501 >>
            /\ client_sessions'[s].data_port = client_sessions[s].data_port
            /\ client_sessions'[s].data_ip = client_sessions[s].data_ip]_vars

\* the password of the first record of the store with user name u
FirstPassword(u) ==
    users[CHOOSE k \in 1 .. Len(users) :
            /\ users[k].username = u
            /\ \A j \in 1 .. (k - 1) : users[j].username # u].password

\* C28: a PASS of a session that names a user of the store is answered 230
\* exactly when its password is the password of the first record with that
\* user name.
C28_FirstRecordWins ==
    [][\A s \in Slots :
         (Cmd(s) /\ lastCmd'.verb = "PASS" /\ user_exists(client_sessions[s].username))
         => (replies' = << 230 >>
             <=> lastCmd'.arg = FirstPassword(client_sessions[s].username))]_vars

\* C29: when a write() of a reply on a control connection fails, the session
\* of that connection is destroyed in that step (slot freed, descriptor
\* closed and no longer watched); and no step ends the server process.
C29_WriteErrorEndsSession ==
    [][/\ \A fd \in Fds :
             (lastCmd'.kind \in {"cmd", "resume"} /\ lastCmd'.fd = fd
                /\ replies' # << >> /\ peer[fd] \in {"reset", "broken"})
             => /\ fd \notin open_fds' \cup master_fds'
                /\ \A i \in Slots : client_sessions'[i].control_fd # fd
       /\ running => running']_vars

\* the path text a CWD with argument a names, from the directory text cur
CwdTarget(cur, a) == IF PathArg(a).abs THEN PathArg(a).segs ELSE JoinPath(cur, a)

\* C30: a CWD of an authenticated session is answered 200 only when its
\* target is an existing directory; when the target is an existing regular
\* file inside the jail it is answered 550 and current_dir stays as it was.
C30_CwdOnlyToDirectory ==
    [][\A s \in Slots :
         (Cmd(s) /\ lastCmd'.verb = "CWD" /\ client_sessions[s].authenticated)
         => LET c == Canon(fs, CwdTarget(client_sessions[s].current_dir, lastCmd'.arg))
            IN  /\ replies' = << 200 >> => IsDir(fs, c)
                /\ (IsFile(fs, c) /\ Under(c, Jail(client_sessions[s].username)))
                   => /\ replies' = << 550 >>
                      /\ client_sessions'[s].current_dir
                            = client_sessions[s].current_dir]_vars

\* C31: a CWD / of an authenticated session whose current directory is in
\* the jail of its user is answered 200 and makes the root of that jail the
\* current directory.
C31_CwdSlashIsJailRoot ==
    [][\A s \in Slots :
         (Cmd(s) /\ lastCmd'.verb = "CWD" /\ lastCmd'.arg = "/"
            /\ client_sessions[s].authenticated
            /\ Under(Canon(fs, client_sessions[s].current_dir),
                     Jail(client_sessions[s].username)))
         => /\ replies' = << 200 >>
            /\ Canon(fs, client_sessions'[s].current_dir)
                  = Jail(client_sessions[s].username)]_vars

\* the text of a command line after its verb, left-trimmed
RECURSIVE Remainder(_)
Remainder(line) ==
    IF Len(line) <= 1 THEN ""
    ELSE IF Len(line) = 2 THEN line[2]
    ELSE line[2] \o " " \o Remainder(Tail(line))

\* C32: the argument a handler is given is the text of the line after the
\* verb, spaces within it kept, and the empty text when the line is a verb
\* alone; a STOR starts a transfer to the file of that whole name in the
\* current directory.
C32_ArgIsRemainder ==
    [][(lastCmd'.kind = "cmd" /\ lastCmd'.line # << >>)
       => /\ lastCmd'.arg = Remainder(lastCmd'.line)
          /\ (lastCmd'.verb = "STOR" /\ pc = "select" /\ pc' = "waitpid")
             => xfer'.path = client_sessions[lastCmd'.slot].current_dir
                               \o << Remainder(lastCmd'.line) >>]_vars

\* C33: from the fork of a transfer's child to its exit no field of any
\* session changes, the stored rename sources do not change, and the control
\* descriptors stay open and watched; the step of the child itself changes
\* none of them.
C33_WorkerLeavesSessions ==
    [][((pc = "waitpid" /\ xfer.state = "running") \/ lastCmd'.kind = "child")
       => /\ client_sessions' = client_sessions
          /\ rnfr_filename' = rnfr_filename
          /\ open_fds' = open_fds
          /\ master_fds' = master_fds]_vars

\* C33 happens: the child of a STOR has run and exited, and the session of
\* the transfer is as the parent left it
C33_Witness ==
    /\ lastCmd.kind = "child" /\ lastCmd.verb = "STOR"
    /\ xfer.state = "exited"
    /\ client_sessions[xfer.slot].control_fd = xfer.fd
    /\ client_sessions[xfer.slot].authenticated
    /\ xfer.fd \in open_fds

C35_ReplyAfterExit ==
    [][/\ (pc = "waitpid" /\ replies' # << >>)
          => /\ xfer.state = "exited"
             /\ lastCmd'.kind = "resume" /\ lastCmd'.arg \in {"pid", "ECHILD"}
             /\ lastCmd'.arg = "ECHILD" <=> xfer.reaped
       /\ lastCmd'.kind = "sigchld"
          => /\ xfer.state = "exited" /\ xfer'.state = "exited"
             /\ pc' = "waitpid" /\ replies' = << >>]_vars

\* C35 happens: a 226 was written for a transfer whose child the SIGCHLD
\* handler had reaped before the parent's waitpid(pid) returned
C35_Witness ==
    /\ lastCmd.kind = "resume" /\ lastCmd.arg = "ECHILD"
    /\ replies = << 226 >>
    /\ pc = "select" /\ xfer = NoXfer

\* C36 (src/code/server.c): an RNTO of an authenticated session that has had
\* no RNFR of its own answered 350 since it began (or since its last RNTO)
\* is answered 503 and renames nothing, whatever the session that held the
\* slot before had sent.
C36_RenameSourceStaysInSession ==
    [][\A s \in Slots :
         (build = "server_c" /\ Cmd(s) /\ lastCmd'.verb = "RNTO"
            /\ client_sessions[s].authenticated /\ ~hist[s].rnfr)
         => (replies' = << 503 >> /\ fs' = fs)]_vars

\* C37: a step that handles a command of one connection, or ends the
\* transfer of one, leaves every slot held by another connection, and the
\* rename source stored for it, as they were.
C37_OtherSessionsUntouched ==
    [][lastCmd'.kind \in {"cmd", "resume"}
       => \A t \in Slots :
             (client_sessions[t].control_fd # -1
                /\ client_sessions[t].control_fd # lastCmd'.fd)
             => /\ client_sessions'[t] = client_sessions[t]
                /\ rnfr_filename'[t] = rnfr_filename[t]]_vars

\* C37 happens: bob's session changed its directory next to alice's
\* logged-in session, which has a data endpoint and a pending rename source
C37_Witness ==
    /\ Was(1, "CWD", << 200 >>) \/ Was(1, "PASS", << 230 >>)
    /\ client_sessions[1].username = "bob" /\ client_sessions[1].authenticated
    /\ client_sessions[0].username = "alice" /\ client_sessions[0].authenticated
    /\ client_sessions[0].data_port # -1
    /\ client_sessions[0].current_dir = << "srv", "alice" >>
    /\ rnfr_filename[0] # EmptyStr /\ rnfr_filename[1] = EmptyStr

\* C38: a PORT answered 200 leaves the session with the data endpoint
\* (h1.h2.h3.h4, p1*256+p2) of the six integers converted, and that endpoint
\* counts as present: the LIST handled next for the session is not answered
\* 425.
C38_PortSetsEndpoint ==
    [][\A s \in Slots :
         /\ (Cmd(s) /\ lastCmd'.verb = "PORT" /\ replies' = << 200 >>
               /\ Len(PortArg(lastCmd'.arg)) = 6)
            => /\ client_sessions'[s].data_ip = SubSeq(PortArg(lastCmd'.arg), 1, 4)
               /\ client_sessions'[s].data_port =
                     PortArg(lastCmd'.arg)[5] * 256 + PortArg(lastCmd'.arg)[6]
               /\ client_sessions'[s].data_port # -1
         /\ (Was(s, "PORT", << 200 >>) /\ Cmd(s) /\ lastCmd'.verb = "LIST"
               /\ client_sessions[s].authenticated)
            => replies' # << 425 >>]_vars

\* C39: the client's LIST waits in accept() only after a first reply 150,
\* the one reply after which the server connects; after any other first
\* reply it is back at the prompt.
C39_AcceptOnlyAfter150 ==
    client.pc = "accept" => client.response = 150

\* C40: when the server handles the PORT line the client wrote for its data
\* port d, the two numbers it converts are in 0 .. 255 and p1*256+p2 is d,
\* which is the port the session then holds.
C40_PortRoundTrip ==
    [][(lastCmd'.kind = "cmd" /\ lastCmd'.fd = ClientFd /\ lastCmd'.verb = "PORT"
          /\ client.pc = "PORT" /\ lastCmd'.slot # -1)
       => /\ Len(PortArg(lastCmd'.arg)) = 6
          /\ PortArg(lastCmd'.arg)[5] \in 0 .. 255
          /\ PortArg(lastCmd'.arg)[6] \in 0 .. 255
          /\ PortArg(lastCmd'.arg)[5] * 256 + PortArg(lastCmd'.arg)[6] = client.data_port
          /\ client_sessions'[lastCmd'.slot].data_port = client.data_port]_vars

\* C40 happens: the PORT line for the highest port was handled
C40_Witness ==
    /\ Was(0, "PORT", << 200 >>) /\ client.pc = "PORT"
    /\ client.data_port = MaxPortNumber
    /\ lastCmd.arg = "127,0,0,1,255,255"
    /\ client_sessions[0].data_port = MaxPortNumber
=============================================================================
